---- MODULE Spec2Model ----
(***************************************************************************)
(* Entity-to-model conversion of Organisation and Blog records.            *)
(*                                                                         *)
(* JavaScript values are modelled as tagged records, so that undefined,    *)
(* null, "", 0 and false stay distinct and the || operator, the spread     *)
(* operator and the schema validators can be computed as the code does.    *)
(***************************************************************************)
EXTENDS Integers, Sequences, FiniteSets, TLC

VARIABLES
  entity,      \* the stored entity the caller holds
  now,         \* the wall clock read by new Date()
  call         \* the last conversion: its argument, its time, its outcome and
               \* the number of lines it printed with console.log

vars == <<entity, now, call>>

(***************************************************************************)
(* Bounds of the model.                                                    *)
(***************************************************************************)
MaxOrgFields == 1     \* fields of a stored Organisation that differ from the bare one
MaxBlogFields == 1    \* fields of a stored Blog that differ from the bare one
MaxPosts == 2         \* length of upcomingPosts and completedPosts
MaxStoredTime == 1    \* stored timestamps are 0..MaxStoredTime
MaxTicks == 1         \* clock ticks after the first conversion time

(***************************************************************************)
(* JavaScript values.                                                      *)
(***************************************************************************)
Undefined == [t |-> "undefined"]
Null == [t |-> "null"]
Str(s) == [t |-> "string", v |-> s]
Num(n) == [t |-> "number", v |-> n]
Bool(b) == [t |-> "boolean", v |-> b]
DateV(ms) == [t |-> "date", v |-> ms]
Arr(seq) == [t |-> "array", v |-> seq]
Obj(fields) == [t |-> "object", v |-> fields]
ObjectId(bytes) == [t |-> "ObjectId", v |-> bytes]

\* entity.key : a missing key reads as undefined
Get(o, key) == IF o.t = "object" /\ key \in DOMAIN o.v THEN o.v[key] ELSE Undefined

\* JavaScript truthiness: undefined, null, "", 0 and false are falsy;
\* every object (Date, array, ObjectId, plain object) is truthy
Truthy(x) ==
  CASE x.t \in {"undefined", "null"} -> FALSE
    [] x.t = "string" -> x.v # ""
    [] x.t = "number" -> x.v # 0
    [] x.t = "boolean" -> x.v
    [] OTHER -> TRUE

\* a || b
Or(a, b) == IF Truthy(a) THEN a ELSE b

\* new Date(x) for a Date x copies its time value
NewDate(x) == DateV(x.v)

(***************************************************************************)
(* ObjectId: 12 bytes, rendered as 24 lowercase hex characters.            *)
(***************************************************************************)
ObjectIdBytes == 12

HexDigit == <<"0", "1", "2", "3", "4", "5", "6", "7",
              "8", "9", "a", "b", "c", "d", "e", "f">>

ByteHex(b) == HexDigit[(b \div 16) + 1] \o HexDigit[(b % 16) + 1]

RECURSIVE BytesHex(_)
BytesHex(bytes) ==
  IF bytes = <<>> THEN "" ELSE ByteHex(Head(bytes)) \o BytesHex(Tail(bytes))

toHexString(id) == Str(BytesHex(id.v))

\* ObjectId.isValid(x), on the values a stored Blog holds in org
ObjectId_isValid(x) == x.t = "ObjectId"

(***************************************************************************)
(* Schemas (zod) as data, and parse as an interpreter over them.           *)
(***************************************************************************)
ZString == [k |-> "string"]
ZNumber == [k |-> "number"]
ZBoolean == [k |-> "boolean"]
ZDate == [k |-> "date"]
ZInstanceOfObjectId == [k |-> "ObjectId"]
ZLiterals(S) == [k |-> "literals", of |-> S]
ZArray(el) == [k |-> "array", el |-> el]
ZObject(shape) == [k |-> "object", shape |-> shape]
ZUnion(a, b) == [k |-> "union", a |-> a, b |-> b]
\* .optional().nullable()
ZOpt(s) == [k |-> "optional", inner |-> s]

\* whether x conforms to schema s
RECURSIVE Conforms(_, _)
Conforms(s, x) ==
  CASE s.k = "optional" -> x.t \in {"undefined", "null"} \/ Conforms(s.inner, x)
    [] s.k \in {"string", "number", "boolean", "date", "ObjectId"} -> x.t = s.k
    [] s.k = "literals" -> x.t = "string" /\ x.v \in s.of
    [] s.k = "array" -> x.t = "array" /\ \A i \in DOMAIN x.v : Conforms(s.el, x.v[i])
    [] s.k = "object" ->
         x.t = "object" /\ \A key \in DOMAIN s.shape : Conforms(s.shape[key], Get(x, key))
    [] s.k = "union" -> Conforms(s.a, x) \/ Conforms(s.b, x)

\* the value parse returns for a conforming x: objects are rebuilt from the
\* keys of the shape, so unknown keys are stripped, and a key the input does
\* not have stays absent; a union takes its first conforming option
RECURSIVE Output(_, _)
Output(s, x) ==
  CASE s.k = "optional" -> IF x.t \in {"undefined", "null"} THEN x ELSE Output(s.inner, x)
    [] s.k \in {"string", "number", "boolean", "date", "ObjectId", "literals"} -> x
    [] s.k = "array" -> Arr([i \in DOMAIN x.v |-> Output(s.el, x.v[i])])
    [] s.k = "object" ->
         Obj([key \in (DOMAIN s.shape) \cap (DOMAIN x.v) |-> Output(s.shape[key], x.v[key])])
    [] s.k = "union" -> IF Conforms(s.a, x) THEN Output(s.a, x) ELSE Output(s.b, x)

Ok(v) == [ok |-> TRUE, v |-> v]
Fail == [ok |-> FALSE, v |-> Undefined]

\* schema.parse(x), with a ZodError as Fail
Parse(s, x) == IF Conforms(s, x) THEN Ok(Output(s, x)) ELSE Fail

(***************************************************************************)
(* Organisation schemas.                                                   *)
(***************************************************************************)
ShopifyConnectionResult ==
  ZOpt(ZObject([apiKey |-> ZString, domain |-> ZString, scopes |-> ZOpt(ZString)]))

ShopifyStatusResult == ZOpt(ZLiterals({"ACTIVE", "PENDING", "INACTIVE", "ERROR"}))

BillingPlanStatusResult == ZOpt(ZLiterals({"INACTIVE", "ACTIVE"}))

OrganisationResult ==
  ZObject([_id |-> ZInstanceOfObjectId,
           country |-> ZOpt(ZString),
           contactEmail |-> ZOpt(ZString),
           locale |-> ZOpt(ZString),
           reviewed |-> ZOpt(ZBoolean),
           reviewSurface |-> ZOpt(ZString),
           rating |-> ZOpt(ZNumber),
           plan |-> ZOpt(ZString),
           website |-> ZOpt(ZString),
           topics |-> ZOpt(ZArray(ZString)),
           settingsLastSynced |-> ZOpt(ZDate),
           createdAt |-> ZOpt(ZDate),
           shopifyConnection |-> ShopifyConnectionResult,
           shopifyConnectionStatus |-> ShopifyStatusResult,
           billingPlanStatus |-> BillingPlanStatusResult,
           billingSubscriptionId |-> ZOpt(ZString),
           billingPlanHandle |-> ZOpt(ZString),
           billingUpdatedAt |-> ZOpt(ZDate)])

OrganisationModelSchema ==
  ZObject([id |-> ZString,
           country |-> ZOpt(ZString),
           contactEmail |-> ZOpt(ZString),
           locale |-> ZOpt(ZString),
           reviewed |-> ZOpt(ZBoolean),
           reviewSurface |-> ZOpt(ZString),
           rating |-> ZOpt(ZNumber),
           plan |-> ZOpt(ZString),
           website |-> ZOpt(ZString),
           topics |-> ZOpt(ZArray(ZString)),
           shopifyConnection |-> ShopifyConnectionResult,
           shopifyConnectionStatus |-> ShopifyStatusResult,
           createdAt |-> ZOpt(ZDate),
           settingsLastSynced |-> ZOpt(ZDate),
           shopifySite |-> ZOpt(ZString),
           billingPlanStatus |-> BillingPlanStatusResult,
           billingSubscriptionId |-> ZOpt(ZString),
           billingPlanHandle |-> ZOpt(ZString),
           billingUpdatedAt |-> ZOpt(ZDate)])

(***************************************************************************)
(* Outcome of a call: a returned value or a thrown error.                  *)
(***************************************************************************)
Return(v) == [kind |-> "return", value |-> v]
Throw(name) == [kind |-> "throw", value |-> [t |-> "error", name |-> name]]

\* a parameter declared as includeCredentials = false
FlagArgs == {"true", "false", "omitted"}
includeCredentialsOf(arg) == IF arg = "omitted" THEN FALSE ELSE arg = "true"

\* x.toHexString() is callable only on an ObjectId; on undefined, null or a
\* string the call throws a TypeError
HasToHexString(x) == x.t = "ObjectId"

(***************************************************************************)
(* OrganisationModel.convertFromEntity, field by field.                    *)
(***************************************************************************)
\* entity.key || null
copyOrNull(e, key) == Or(Get(e, key), Null)

createdAtField(e, clock) == NewDate(Or(Get(e, "createdAt"), DateV(clock)))

\* settingsLastSynced defaulted like createdAt
settingsLastSyncedField_now(e, clock) ==
  NewDate(Or(Get(e, "settingsLastSynced"), DateV(clock)))

settingsLastSyncedField(e, clock) ==
  IF Truthy(Get(e, "settingsLastSynced"))
  THEN NewDate(Or(Get(e, "settingsLastSynced"), DateV(clock)))
  ELSE Null

\* the bundle copied whatever the flag
shopifyConnectionField_ungated(e, includeCredentials) ==
  Or(Get(e, "shopifyConnection"), Null)

shopifyConnectionField(e, includeCredentials) ==
  IF includeCredentials THEN Or(Get(e, "shopifyConnection"), Null) ELSE Null

\* the status defaulted like the descriptive fields
shopifyConnectionStatusField_null(e) == Or(Get(e, "shopifyConnectionStatus"), Null)

shopifyConnectionStatusField(e) == Or(Get(e, "shopifyConnectionStatus"), Str("INACTIVE"))

\* entity?.shopifyConnection?.domain || null
shopifySiteField(e) ==
  IF e.t \in {"undefined", "null"} \/ Get(e, "shopifyConnection").t \in {"undefined", "null"}
  THEN Null
  ELSE Or(Get(Get(e, "shopifyConnection"), "domain"), Null)

billingPlanStatusField(e) == Or(Get(e, "billingPlanStatus"), Str("INACTIVE"))

billingUpdatedAtField(e, clock) ==
  IF Truthy(Get(e, "billingUpdatedAt"))
  THEN NewDate(Or(Get(e, "billingUpdatedAt"), DateV(clock)))
  ELSE Null

OrganisationModel_obj(e, includeCredentials, clock) ==
  Obj([id |-> toHexString(Get(e, "_id")),
       country |-> copyOrNull(e, "country"),
       contactEmail |-> copyOrNull(e, "contactEmail"),
       locale |-> copyOrNull(e, "locale"),
       reviewed |-> copyOrNull(e, "reviewed"),
       reviewSurface |-> copyOrNull(e, "reviewSurface"),
       rating |-> copyOrNull(e, "rating"),
       plan |-> copyOrNull(e, "plan"),
       website |-> copyOrNull(e, "website"),
       topics |-> copyOrNull(e, "topics"),
       createdAt |-> createdAtField(e, clock),
       settingsLastSynced |-> settingsLastSyncedField(e, clock),
       shopifyConnection |-> shopifyConnectionField(e, includeCredentials),
       shopifyConnectionStatus |-> shopifyConnectionStatusField(e),
       shopifySite |-> shopifySiteField(e),
       billingPlanStatus |-> billingPlanStatusField(e),
       billingSubscriptionId |-> copyOrNull(e, "billingSubscriptionId"),
       billingPlanHandle |-> copyOrNull(e, "billingPlanHandle"),
       billingUpdatedAt |-> billingUpdatedAtField(e, clock)])

OrganisationModel_convertFromEntity(e, includeCredentials, clock) ==
  IF ~HasToHexString(Get(e, "_id"))
  THEN Throw("TypeError")
  ELSE LET r == Parse(OrganisationModelSchema, OrganisationModel_obj(e, includeCredentials, clock))
       IN  IF r.ok THEN Return(r.v) ELSE Throw("ZodError")

\* console.log("includeCredentials IS TRUE"): lines printed by one call
OrganisationModel_logs(includeCredentials) == IF includeCredentials THEN 1 ELSE 0

(***************************************************************************)
(* Blog schemas.                                                           *)
(***************************************************************************)
ImageAspectRatioResult == ZOpt(ZLiterals({"ANY", "SQUARE", "LANDSCAPE", "PORTRAIT"}))

ImageSourceResult == ZOpt(ZLiterals({"ANY", "PRODUCTS", "SEARCH"}))

BlogTypeResult == ZOpt(ZLiterals({"RECIPE", "TOPIC", "PRODUCT"}))

ProductResult ==
  ZObject([id |-> ZOpt(ZString), image |-> ZOpt(ZString),
           title |-> ZOpt(ZString), url |-> ZOpt(ZString)])

ImageResult ==
  ZObject([url |-> ZOpt(ZString), alt |-> ZOpt(ZString), credit |-> ZOpt(ZString)])

UpcomingPostsResult ==
  ZObject([title |-> ZOpt(ZString), image |-> ZOpt(ImageResult),
           products |-> ZOpt(ZArray(ProductResult))])

CompletedPostsResult == ZObject([title |-> ZOpt(ZString), id |-> ZOpt(ZString)])

BlogInputResult_shape ==
  [disabled |-> ZOpt(ZBoolean),
   blogType |-> BlogTypeResult,
   blogTopic |-> ZOpt(ZString),
   enabledFormats |-> ZOpt(ZObject([allEnabled |-> ZOpt(ZBoolean),
                                    enabled |-> ZOpt(ZArray(ZString))])),
   enabledProducts |-> ZOpt(ZObject([allEnabled |-> ZOpt(ZBoolean),
                                     enabled |-> ZOpt(ZArray(ProductResult))])),
   keywords |-> ZOpt(ZArray(ZString)),
   authorName |-> ZOpt(ZString),
   blogId |-> ZOpt(ZString),
   language |-> ZOpt(ZString),
   publishPosts |-> ZOpt(ZBoolean),
   publishDays |-> ZOpt(ZObject([monday |-> ZOpt(ZBoolean), tuesday |-> ZOpt(ZBoolean),
                                 wednesday |-> ZOpt(ZBoolean), thursday |-> ZOpt(ZBoolean),
                                 friday |-> ZOpt(ZBoolean), saturday |-> ZOpt(ZBoolean),
                                 sunday |-> ZOpt(ZBoolean)])),
   titleCustomPrompt |-> ZOpt(ZString),
   titleWordLimit |-> ZOpt(ZNumber),
   bodyCustomPrompt |-> ZOpt(ZString),
   bodyWordCount |-> ZOpt(ZNumber),
   imageKeywords |-> ZOpt(ZString),
   imageAspectRatio |-> ImageAspectRatioResult,
   imageSource |-> ImageSourceResult,
   imageWidth |-> ZOpt(ZNumber),
   upcomingPosts |-> ZOpt(ZArray(UpcomingPostsResult)),
   completedPosts |-> ZOpt(ZArray(CompletedPostsResult))]

BlogResult ==
  ZObject(BlogInputResult_shape @@
          [_id |-> ZInstanceOfObjectId,
           org |-> ZUnion(ZInstanceOfObjectId, OrganisationResult),
           createdAt |-> ZOpt(ZDate),
           lastPostPublished |-> ZOpt(ZDate),
           lastUpdated |-> ZOpt(ZDate)])

BlogModelSchema ==
  ZObject(BlogInputResult_shape @@
          [id |-> ZString,
           org |-> ZUnion(ZString, OrganisationModelSchema),
           createdAt |-> ZOpt(ZDate),
           lastPostPublished |-> ZOpt(ZDate),
           lastUpdated |-> ZOpt(ZDate)])

(***************************************************************************)
(* BlogModel.convertFromEntity.                                            *)
(***************************************************************************)
\* the value assigned to org; a throw of the nested conversion propagates
\* includeCredentials not forwarded to the nested conversion
orgField_notForwarded(e, includeCredentials, clock) ==
  IF ObjectId_isValid(Get(e, "org"))
  THEN Return(toHexString(Get(e, "_id")))
  ELSE OrganisationModel_convertFromEntity(Get(e, "org"), FALSE, clock)

orgField(e, includeCredentials, clock) ==
  IF ObjectId_isValid(Get(e, "org"))
  THEN Return(toHexString(Get(e, "_id")))
  ELSE OrganisationModel_convertFromEntity(Get(e, "org"), includeCredentials, clock)

\* ...entity.key && { key: new Date(entity.key || new Date()) }
\* spreading a falsy value adds no key
\* the date key always written, falling back to the clock
dateSpread_always(e, key, clock) ==
  key :> NewDate(Or(Get(e, key), DateV(clock)))

dateSpread(e, key, clock) ==
  IF Truthy(Get(e, key))
  THEN key :> NewDate(Or(Get(e, key), DateV(clock)))
  ELSE << >>

\* upcomingPosts rebuilt without the posts that have no title
BlogModel_obj_filtered(e, includeCredentials, clock) ==
  LET posts == Get(e, "upcomingPosts").v
      RECURSIVE Titled(_)
      Titled(q) ==
        IF q = << >> THEN << >>
        ELSE IF Truthy(Get(Head(q), "title"))
             THEN <<Head(q)>> \o Titled(Tail(q))
             ELSE Titled(Tail(q))
  IN
  Obj((IF Get(e, "upcomingPosts").t = "array"
       THEN "upcomingPosts" :> Arr(Titled(posts))
       ELSE << >>) @@
      dateSpread(e, "createdAt", clock) @@
      dateSpread(e, "lastUpdated", clock) @@
      dateSpread(e, "lastPostPublished", clock) @@
      [id |-> toHexString(Get(e, "_id")),
       org |-> orgField(e, includeCredentials, clock).value] @@
      e.v)

\* later keys of an object literal override earlier ones
BlogModel_obj(e, includeCredentials, clock) ==
  Obj(dateSpread(e, "createdAt", clock) @@
      dateSpread(e, "lastUpdated", clock) @@
      dateSpread(e, "lastPostPublished", clock) @@
      [id |-> toHexString(Get(e, "_id")),
       org |-> orgField(e, includeCredentials, clock).value] @@
      e.v)

BlogModel_convertFromEntity(e, includeCredentials, clock) ==
  LET org == orgField(e, includeCredentials, clock) IN
  IF ~HasToHexString(Get(e, "_id"))
  THEN Throw("TypeError")
  ELSE IF org.kind = "throw"
  THEN org
  ELSE LET r == Parse(BlogModelSchema, BlogModel_obj(e, includeCredentials, clock))
       IN  IF r.ok THEN Return(r.v) ELSE Throw("ZodError")

\* the nested Organisation conversion prints; the Blog conversion itself does not
BlogModel_logs(e, includeCredentials) ==
  IF HasToHexString(Get(e, "_id")) /\ ~ObjectId_isValid(Get(e, "org"))
  THEN OrganisationModel_logs(includeCredentials)
  ELSE 0

(***************************************************************************)
(* Stored entities.                                                        *)
(***************************************************************************)
Id(n) == ObjectId([i \in 1..ObjectIdBytes |-> (n * 37 + i * 23 + 11) % 256])

\* marks a key the stored entity does not have
Absent == [t |-> "absent"]

SetKey(m, key, val) ==
  IF val = Absent
  THEN [x \in (DOMAIN m) \ {key} |-> m[x]]
  ELSE (key :> val) @@ m

StoredTimes == {DateV(ms) : ms \in 0..MaxStoredTime}

\* identities the identity schema does not admit: missing, null, a hex string
MalformedIds == {Absent, Null, toHexString(Id(1))}

Bundles ==
  {Obj([apiKey |-> Str("key-1"), domain |-> Str("shop.example")]),
   Obj([apiKey |-> Str("key-1"), domain |-> Str("shop.example"), scopes |-> Null]),
   Obj([apiKey |-> Str("key-2"), domain |-> Str("shop.example"), scopes |-> Str("read,write")]),
   Obj([apiKey |-> Str("key-3"), domain |-> Str("")])}

OrgStringKeys ==
  {"country", "contactEmail", "locale", "reviewSurface", "plan", "website",
   "billingSubscriptionId", "billingPlanHandle"}

OrgFieldOptions ==
  ({"_id"} \X ({Id(2)} \cup MalformedIds))
  \cup UNION {{key} \X {Null, Str(""), Str("some " \o key)} : key \in OrgStringKeys}
  \cup ({"reviewed"} \X {Null, Bool(FALSE), Bool(TRUE)})
  \cup ({"rating"} \X {Null, Num(0), Num(5)})
  \cup ({"topics"} \X {Null, Arr(<< >>), Arr(<<Str("tea"), Str("")>>)})
  \cup ({"createdAt", "settingsLastSynced", "billingUpdatedAt"} \X ({Null} \cup StoredTimes))
  \cup ({"shopifyConnection"} \X ({Null} \cup Bundles))
  \cup ({"shopifyConnectionStatus"} \X
          ({Null} \cup {Str(x) : x \in {"ACTIVE", "PENDING", "INACTIVE", "ERROR"}}))
  \cup ({"billingPlanStatus"} \X ({Null} \cup {Str(x) : x \in {"INACTIVE", "ACTIVE"}}))

OrgBase == "_id" :> Id(1)

RECURSIVE OrgMaps(_)
OrgMaps(n) ==
  IF n = 0 THEN {OrgBase}
  ELSE LET prev == OrgMaps(n - 1)
       IN  prev \cup {SetKey(m, o[1], o[2]) : m \in prev, o \in OrgFieldOptions}

OrgEntities == {Obj(m) : m \in OrgMaps(MaxOrgFields)}

\* organisations embedded in a Blog: the bare one, and one field set
EmbeddedOrgKeys ==
  {"_id", "reviewed", "createdAt", "shopifyConnection", "shopifyConnectionStatus"}

EmbeddedOrgs ==
  {Obj(OrgBase)} \cup
  {Obj(SetKey(OrgBase, o[1], o[2])) : o \in {x \in OrgFieldOptions : x[1] \in EmbeddedOrgKeys}}

SampleUpcoming ==
  {Obj([title |-> Str("five teas"),
        image |-> Obj([url |-> Str("https://img/1"), alt |-> Str("a cup"), credit |-> Str("ann")]),
        products |-> Arr(<<Obj([id |-> Str("p1"), title |-> Str("oolong")]),
                           Obj([id |-> Str("p2"), url |-> Null])>>)]),
   Obj([title |-> Null, image |-> Null, products |-> Arr(<< >>)])}

SampleCompleted ==
  {Obj([title |-> Str("hello"), id |-> Str("gid://1")]),
   Obj([title |-> Str("again"), id |-> Null])}

SeqsUpTo(S, n) == UNION {[1..len -> S] : len \in 0..n}

BlogFieldOptions ==
  ({"_id"} \X ({Id(2)} \cup MalformedIds))
  \cup ({"org"} \X ({Id(1), Id(3)} \cup EmbeddedOrgs))
  \cup ({"createdAt", "lastPostPublished", "lastUpdated"} \X
          ({Null, Undefined} \cup StoredTimes))
  \cup ({"upcomingPosts"} \X ({Null} \cup {Arr(q) : q \in SeqsUpTo(SampleUpcoming, MaxPosts)}))
  \cup ({"completedPosts"} \X ({Null} \cup {Arr(q) : q \in SeqsUpTo(SampleCompleted, MaxPosts)}))
  \cup ({"disabled"} \X {Bool(FALSE), Bool(TRUE)})
  \cup ({"blogType"} \X {Null, Str("TOPIC")})
  \cup ({"blogTopic"} \X {Str(""), Str("tea")})
  \cup ({"keywords"} \X {Arr(<<Str("green"), Str("black")>>)})
  \cup ({"titleWordLimit"} \X {Num(0), Num(12)})
  \cup ({"publishDays"} \X {Obj([monday |-> Bool(TRUE), sunday |-> Bool(FALSE)])})
  \cup ({"enabledProducts"} \X
          {Obj([allEnabled |-> Bool(FALSE), enabled |-> Arr(<<Obj("id" :> Str("p1"))>>)])})

BlogBase == [_id |-> Id(1), org |-> Id(2)]

RECURSIVE BlogMaps(_)
BlogMaps(n) ==
  IF n = 0 THEN {BlogBase}
  ELSE LET prev == BlogMaps(n - 1)
       IN  prev \cup {SetKey(m, o[1], o[2]) : m \in prev, o \in BlogFieldOptions}

\* a stored Blog always has an owner
BlogEntities == {Obj(m) : m \in BlogMaps(MaxBlogFields)}

(***************************************************************************)
(* The state machine: a caller holds a stored entity and converts it.      *)
(***************************************************************************)
FirstNow == MaxStoredTime + 1

NoCall ==
  [op |-> "none", arg |-> "omitted", at |-> 0, result |-> Throw("none"), logged |-> 0]

\* a stored Blog has an owner, a stored Organisation has none
IsBlog(e) == "org" \in DOMAIN e.v

InitOrganisation ==
  /\ entity \in OrgEntities
  /\ now = FirstNow
  /\ call = NoCall

InitBlog ==
  /\ entity \in BlogEntities
  /\ now = FirstNow
  /\ call = NoCall

Init == InitOrganisation \/ InitBlog

\* the caller of OrganisationModel.convertFromEntity holds an Organisation
ConvertOrganisation(arg) ==
  LET includeCredentials == includeCredentialsOf(arg) IN
  /\ ~IsBlog(entity)
  /\ call' = [op |-> "Organisation", arg |-> arg, at |-> now,
              result |-> OrganisationModel_convertFromEntity(entity, includeCredentials, now),
              logged |-> OrganisationModel_logs(includeCredentials)]
  /\ UNCHANGED <<entity, now>>

\* the caller of BlogModel.convertFromEntity holds a Blog
ConvertBlog(arg) ==
  LET includeCredentials == includeCredentialsOf(arg) IN
  /\ IsBlog(entity)
  /\ call' = [op |-> "Blog", arg |-> arg, at |-> now,
              result |-> BlogModel_convertFromEntity(entity, includeCredentials, now),
              logged |-> BlogModel_logs(entity, includeCredentials)]
  /\ UNCHANGED <<entity, now>>

Tick ==
  /\ now < FirstNow + MaxTicks
  /\ now' = now + 1
  /\ UNCHANGED <<entity, call>>

NextOrganisation ==
  \/ \E arg \in FlagArgs : ConvertOrganisation(arg)
  \/ Tick

NextBlog ==
  \/ \E arg \in FlagArgs : ConvertBlog(arg)
  \/ Tick

Next ==
  \/ \E arg \in FlagArgs : ConvertOrganisation(arg)
  \/ \E arg \in FlagArgs : ConvertBlog(arg)
  \/ Tick

SpecOrganisation == InitOrganisation /\ [][NextOrganisation]_vars

SpecBlog == InitBlog /\ [][NextBlog]_vars

Spec == Init /\ [][Next]_vars

TypeOK ==
  /\ call.op \in {"none", "Organisation", "Blog"}
  /\ call.arg \in FlagArgs
  /\ call.result.kind \in {"return", "throw"}
  /\ call.logged \in {0, 1}

(***************************************************************************)
(* Properties.                                                             *)
(***************************************************************************)
\* entities of the stored shapes
StoredOrganisation(e) == Conforms(OrganisationResult, e)
StoredBlog(e) == Conforms(BlogResult, e)

Returned == call.result.kind = "return"
Out == call.result.value
CallFlag == includeCredentialsOf(call.arg)
IsSet(x) == x.t \notin {"undefined", "null"}

\* C1: converting a stored Organisation that has a credential bundle returns
\* shopifyConnection = null when includeCredentials is false or omitted and
\* the stored bundle exactly when it is true; no output of the Organisation
\* conversion carries a bundle unless the flag was true.
C1_CredentialGating ==
  (call.op = "Organisation" /\ StoredOrganisation(entity)) =>
    /\ Returned
    /\ "shopifyConnection" \in DOMAIN Out.v
    /\ IsSet(Get(entity, "shopifyConnection")) =>
         Out.v.shopifyConnection =
           (IF call.arg = "true" THEN Get(entity, "shopifyConnection") ELSE Null)
    /\ IsSet(Out.v.shopifyConnection) => call.arg = "true"

C1_Witness ==
  /\ call.op = "Organisation"
  /\ call.arg = "true"
  /\ Returned
  /\ IsSet(Get(Get(entity, "shopifyConnection"), "scopes"))
  /\ Get(Out, "shopifyConnection") = Get(entity, "shopifyConnection")

\* C2: converting a stored Blog whose org is a bare identifier returns org =
\* the hex string of that stored org identifier, also when the blog's own
\* _id differs from org.
C2_OwnerUnresolved ==
  (call.op = "Blog" /\ StoredBlog(entity) /\ Get(entity, "org").t = "ObjectId") =>
    /\ Returned
    /\ Get(Out, "org") = toHexString(Get(entity, "org"))

\* C3: converting a stored Blog whose org is an embedded Organisation returns
\* org = the Organisation conversion of the embedded entity with the same
\* includeCredentials; with the flag false or omitted org.shopifyConnection
\* is null.
C3_OwnerResolved ==
  (call.op = "Blog" /\ StoredBlog(entity) /\ Get(entity, "org").t = "object") =>
    LET inner == OrganisationModel_convertFromEntity(
                   Get(entity, "org"), CallFlag, call.at)
    IN  /\ inner.kind = "return"
        /\ Returned
        /\ Get(Out, "org") = inner.value
        /\ ~CallFlag => Get(Get(Out, "org"), "shopifyConnection") = Null
        /\ CallFlag =>
             Get(Get(Out, "org"), "shopifyConnection") =
               Or(Get(Get(entity, "org"), "shopifyConnection"), Null)

C3_Witness ==
  /\ call.op = "Blog"
  /\ call.arg = "true"
  /\ Returned
  /\ IsSet(Get(Get(entity, "org"), "shopifyConnection"))
  /\ Get(Get(Out, "org"), "shopifyConnection") = Get(Get(entity, "org"), "shopifyConnection")

\* C4: for a stored Organisation with a credential bundle the output
\* shopifySite equals the bundle's domain, for both values of
\* includeCredentials and every domain string; without a bundle it is null.
C4_DomainExposure ==
  (call.op = "Organisation" /\ StoredOrganisation(entity)) =>
    /\ Returned
    /\ Get(Out, "shopifySite") =
         (IF IsSet(Get(entity, "shopifyConnection"))
          THEN Get(Get(entity, "shopifyConnection"), "domain")
          ELSE Null)

DescriptiveKeys ==
  {"country", "locale", "contactEmail", "reviewed", "reviewSurface", "rating",
   "plan", "website", "topics"}

\* C5: each descriptive field of the output equals the stored value when one
\* is stored (false, 0 and "" included) and is null when the stored field is
\* absent or null; no descriptive field is missing from the output.
C5_DescriptiveCopy ==
  (call.op = "Organisation" /\ StoredOrganisation(entity)) =>
    /\ Returned
    /\ \A key \in DescriptiveKeys :
         /\ key \in DOMAIN Out.v
         /\ Out.v[key] = (IF IsSet(Get(entity, key)) THEN Get(entity, key) ELSE Null)

\* C6: converting an Organisation or a Blog whose _id is missing or is not an
\* identifier ends in the schema validation error, and in no other outcome.
C6_MalformedRejected ==
  (call.op # "none" /\ Get(entity, "_id").t # "ObjectId") =>
    call.result = Throw("ZodError")

\* C7: the output shopifyConnectionStatus and billingPlanStatus equal the
\* stored status when one is stored and are "INACTIVE" otherwise, so neither
\* is null, for every value of includeCredentials.
C7_EnumDefaults ==
  (call.op = "Organisation" /\ StoredOrganisation(entity)) =>
    /\ Returned
    /\ \A key \in {"shopifyConnectionStatus", "billingPlanStatus"} :
         Get(Out, key) = (IF IsSet(Get(entity, key)) THEN Get(entity, key) ELSE Str("INACTIVE"))

C7_Witness ==
  /\ call.op = "Organisation"
  /\ Returned
  /\ ~IsSet(Get(entity, "shopifyConnectionStatus"))
  /\ Get(entity, "billingPlanStatus") = Str("ACTIVE")
  /\ Get(Out, "shopifyConnectionStatus") = Str("INACTIVE")
  /\ Get(Out, "billingPlanStatus") = Str("ACTIVE")

\* C8: the output createdAt equals the stored createdAt when one is stored
\* and the clock at conversion time otherwise; settingsLastSynced and
\* billingUpdatedAt equal the stored value when one is stored and are null
\* otherwise.
C8_TimestampAsymmetry ==
  (call.op = "Organisation" /\ StoredOrganisation(entity)) =>
    /\ Returned
    /\ Get(Out, "createdAt") =
         (IF IsSet(Get(entity, "createdAt")) THEN Get(entity, "createdAt") ELSE DateV(call.at))
    /\ \A key \in {"settingsLastSynced", "billingUpdatedAt"} :
         Get(Out, key) = (IF IsSet(Get(entity, key)) THEN Get(entity, key) ELSE Null)

C8_Witness ==
  /\ call.op = "Organisation"
  /\ Returned
  /\ call.at > FirstNow
  /\ ~IsSet(Get(entity, "createdAt"))
  /\ ~IsSet(Get(entity, "settingsLastSynced"))
  /\ Get(Out, "createdAt") = DateV(call.at)
  /\ Get(Out, "settingsLastSynced") = Null

BlogDateKeys == {"lastPostPublished", "lastUpdated", "createdAt"}

\* C9, as stated: each Blog timestamp that is stored is output unchanged, and
\* each that is present but falsy is output as the clock at conversion time.
C9_NowFallback ==
  (call.op = "Blog" /\ StoredBlog(entity)) =>
    /\ Returned
    /\ \A key \in BlogDateKeys :
         /\ Get(entity, key).t = "date" => Get(Out, key) = Get(entity, key)
         /\ (key \in DOMAIN entity.v /\ ~Truthy(entity.v[key])) =>
              Get(Out, key) = DateV(call.at)

\* C9, amended: each Blog timestamp that is stored is output unchanged, and
\* each that is null, undefined or missing is output as it is stored: null
\* stays null, undefined stays undefined, a missing key stays missing.
C9_NoFallback ==
  (call.op = "Blog" /\ StoredBlog(entity)) =>
    /\ Returned
    /\ \A key \in BlogDateKeys :
         /\ (key \in DOMAIN Out.v) = (key \in DOMAIN entity.v)
         /\ Get(Out, key) = Get(entity, key)

C9_Witness ==
  /\ call.op = "Blog"
  /\ Returned
  /\ "createdAt" \in DOMAIN entity.v
  /\ Get(entity, "createdAt") = Null
  /\ "createdAt" \in DOMAIN Out.v
  /\ Get(Out, "createdAt") = Null

\* C10: the output upcomingPosts has the length of the stored one, with the
\* same title, image url, alt and credit, and products at every position; the
\* same for completedPosts with title and id; for every includeCredentials.
SamePosts(key, fields) ==
  LET stored == Get(entity, key)
      out == Get(Out, key)
  IN  IF stored.t = "array"
      THEN /\ out.t = "array"
           /\ Len(out.v) = Len(stored.v)
           /\ \A i \in 1..Len(stored.v) :
                \A f \in fields : Get(out.v[i], f) = Get(stored.v[i], f)
      ELSE out = stored

C10_ListPassThrough ==
  (call.op = "Blog" /\ StoredBlog(entity)) =>
    /\ Returned
    /\ SamePosts("upcomingPosts", {"title", "image", "products"})
    /\ SamePosts("completedPosts", {"title", "id"})

C10_Witness ==
  /\ call.op = "Blog"
  /\ Returned
  /\ Get(entity, "upcomingPosts").t = "array"
  /\ Len(Get(entity, "upcomingPosts").v) = 2
  /\ Get(entity, "upcomingPosts").v[1] # Get(entity, "upcomingPosts").v[2]
  /\ ~Truthy(Get(Get(entity, "upcomingPosts").v[1], "title"))
  /\ Get(Out, "upcomingPosts") = Get(entity, "upcomingPosts")

====
